---- MODULE Spec2Model ----
(***************************************************************************)
(* Request validation, handler dispatch and response shaping of the        *)
(* FastAPI application in src/main.py.                                     *)
(*                                                                         *)
(* Wire level: path and query values are strings; a body is a JSON value,  *)
(* written [t |-> kind, v |-> ...] with kind one of "obj", "num", "str",   *)
(* "arr", and v the lexeme (scalars), a function from keys to JSON values  *)
(* (objects) or a sequence of JSON values (arrays).                        *)
(*                                                                         *)
(* Python level: int is an integer, float is an integer count of tenths    *)
(* (35.4 is 354), str is a string, bool is a BOOLEAN, and a value of type  *)
(* Union[T, None] is a sequence: << >> is None and <<x>> is x.             *)
(***************************************************************************)
EXTENDS Integers, Sequences, FiniteSets, TLC

VARIABLES fake_items_db, stage, request, raw, args, errors, result, response, history

vars == <<fake_items_db, stage, request, raw, args, errors, result, response, history>>

---------------------------------------------------------------------------
(* Bounds of the explored inputs.                                          *)

\* skip ranges over -MaxSkip .. MaxSkip
MaxSkip == 3
\* limit ranges over -MaxLimit .. MaxLimit
MaxLimit == 2
\* integers this far on either side of a declared numeric bound are tried
Overshoot == 1
\* string lengths this far on either side of a declared length bound are tried
LenSlack == 1

---------------------------------------------------------------------------
(* Strings and lexemes.                                                    *)

Digits == <<"0", "1", "2", "3", "4", "5", "6", "7", "8", "9">>

CharAt(s, i) == SubSeq(s, i, i)

IsDigit(ch) == \E d \in 1..10 : Digits[d] = ch

DigitVal(ch) == (CHOOSE d \in 1..10 : Digits[d] = ch) - 1

RECURSIVE AllDigits(_)
AllDigits(s) == Len(s) = 0 \/ (IsDigit(CharAt(s, 1)) /\ AllDigits(SubSeq(s, 2, Len(s))))

RECURSIVE DigitsVal(_)
DigitsVal(s) ==
    IF Len(s) = 0 THEN 0
    ELSE 10 * DigitsVal(SubSeq(s, 1, Len(s) - 1)) + DigitVal(CharAt(s, Len(s)))

RECURSIVE NatLexeme(_)
NatLexeme(n) == IF n < 10 THEN Digits[n + 1] ELSE NatLexeme(n \div 10) \o Digits[(n % 10) + 1]

\* the decimal text of an integer, as a client writes it in a URL
IntLexeme(n) == IF n < 0 THEN "-" \o NatLexeme(-n) ELSE NatLexeme(n)

RECURSIVE Rep(_, _)
Rep(s, n) ==
    IF n <= 0 THEN ""
    ELSE IF n % 2 = 0 THEN LET h == Rep(s, n \div 2) IN h \o h
    ELSE s \o Rep(s, n - 1)

Unsigned(s) == IF Len(s) > 0 /\ CharAt(s, 1) = "-" THEN SubSeq(s, 2, Len(s)) ELSE s

Sign(s) == IF Len(s) > 0 /\ CharAt(s, 1) = "-" THEN -1 ELSE 1

\* int(s), for the lexemes explored: an optional "-" and at least one digit
IsIntLexeme(s) == Len(Unsigned(s)) > 0 /\ AllDigits(Unsigned(s))

ParseInt(s) == Sign(s) * DigitsVal(Unsigned(s))

DotAt(s) == IF \E i \in 1..Len(s) : CharAt(s, i) = "."
            THEN CHOOSE i \in 1..Len(s) : CharAt(s, i) = "."
            ELSE 0

\* float(s) for the lexemes of the model: digits, or digits "." one digit
IsFloatLexeme(s) ==
    LET u == Unsigned(s)
        d == DotAt(u)
    IN  IF d = 0 THEN Len(u) > 0 /\ AllDigits(u)
        ELSE /\ d > 1
             /\ Len(u) = d + 1
             /\ AllDigits(SubSeq(u, 1, d - 1))
             /\ AllDigits(SubSeq(u, d + 1, Len(u)))

\* the value in tenths
ParseFloat(s) ==
    LET u == Unsigned(s)
        d == DotAt(u)
    IN  IF d = 0 THEN Sign(s) * 10 * DigitsVal(u)
        ELSE Sign(s) * (10 * DigitsVal(SubSeq(u, 1, d - 1)) + DigitsVal(SubSeq(u, d + 1, Len(u))))

\* the lexemes a bool parameter reads as True and as False (explored in
\* lower case only)
BoolTrue == {"1", "on", "t", "true", "y", "yes"}

BoolFalse == {"0", "off", "f", "false", "n", "no"}

\* re.match of a pattern ^literal$ : "$" also matches before a final newline
RegexMatch(pattern, s) ==
    LET lit == SubSeq(pattern, 2, Len(pattern) - 1)
    IN  s = lit \/ s = lit \o "\n"

JNum(s) == [t |-> "num", v |-> s]

JStr(s) == [t |-> "str", v |-> s]

JObj(f) == [t |-> "obj", v |-> f]

JArr(q) == [t |-> "arr", v |-> q]

\* no body was sent
NoBody == [t |-> "none", v |-> ""]

None == << >>

Some(x) == <<x>>

\* Python truthiness of an Optional[str] / Optional[float] / Optional[model]
TruthyStr(o) == o # None /\ o[1] # ""

TruthyNum(o) == o # None /\ o[1] # 0

\* dict.update
Update(d, e) == [k \in DOMAIN d \cup DOMAIN e |-> IF k \in DOMAIN e THEN e[k] ELSE d[k]]

---------------------------------------------------------------------------
(* Declarations: models, enum, backing list, and one parameter list per    *)
(* route, as the decorators and signatures of src/main.py declare them.    *)

\* one declared parameter or model field
Field(name, in, type, optional, required, default, alias, cons, embed) ==
    [name |-> name, in |-> in, type |-> type, optional |-> optional,
     required |-> required, default |-> default, alias |-> alias, cons |-> cons,
     embed |-> embed]

NoCons == << >>

Required(name, in, type) == Field(name, in, type, FALSE, TRUE, None, "", NoCons, FALSE)

Defaulted(name, in, type, default) == Field(name, in, type, FALSE, FALSE, default, "", NoCons, FALSE)

\* Union[type, None] = None
OptionalNone(name, in, type) == Field(name, in, type, TRUE, FALSE, None, "", NoCons, FALSE)

Item ==
    << Required("name", "body", "str"),
       Field("description", "body", "str", TRUE, FALSE, None, "", [max_length |-> 300], FALSE),
       Field("price", "body", "float", FALSE, TRUE, None, "", [gt |-> 0], FALSE),
       OptionalNone("tax", "body", "float"),
       Defaulted("tags", "body", "set_str", {}) >>

User ==
    << Required("username", "body", "str"),
       OptionalNone("full_name", "body", "str") >>

ModelName == [alexnet |-> "alexnet", resnet |-> "resnet", lenet |-> "lenet"]

ModelFields(type) == IF type = "Item" THEN Item ELSE User

IsModel(type) == type \in {"Item", "User"}

InitialItemsDb == << [item_name |-> "Foo"], [item_name |-> "Bar"], [item_name |-> "Baz"] >>

GetItems == "GET /items/"
PostItems == "POST /items/"
GetItems3 == "GET /items3/"
GetItem == "GET /items/{item_id}"
PutItem == "PUT /items/{item_id}"
PutItems2 == "PUT /items2/{item_id}"
PutItems3 == "PUT /items3/{item_id}"
PutItems4 == "PUT /items4/{item_id}"
PutItems5 == "PUT /items5/{item_id}"
GetModel == "GET /models/{model_name}"
GetUserItem == "GET /users/{user_id}/items/{item_id}"

Endpoints == {GetItems, PostItems, GetItems3, GetItem, PutItem, PutItems2, PutItems3,
              PutItems4, PutItems5, GetModel, GetUserItem}

\* QueryCons with min_length off by one
QueryConsLongerMin == [min_length |-> 4, max_length |-> 50, regex |-> "^fixed-query$"]

QueryCons == [min_length |-> 3, max_length |-> 50, regex |-> "^fixed-query$"]

read_item_params ==
    << Defaulted("skip", "query", "int", 0), Defaulted("limit", "query", "int", 10) >>

create_item_params == << Required("item", "body", "Item") >>

read_items3_params ==
    << Field("q", "query", "str", TRUE, FALSE, None, "item-query", QueryCons, FALSE) >>

read_item_by_id_params ==
    << Required("item_id", "path", "str"),
       Field("q", "query", "str", TRUE, FALSE, None, "", QueryCons, FALSE),
       Defaulted("short", "query", "bool", FALSE) >>

\* create_item_put_params without embed=True
create_item_put_params_plain ==
    << Required("item_id", "path", "int"),
       Required("item", "body", "Item"),
       OptionalNone("q", "query", "str") >>

create_item_put_params ==
    << Required("item_id", "path", "int"),
       Field("item", "body", "Item", FALSE, TRUE, None, "", NoCons, TRUE),
       OptionalNone("q", "query", "str") >>

\* update_item_items2_params with lt=1000 for le=1000
update_item_items2_params_exclusive ==
    << Field("item_id", "path", "int", FALSE, TRUE, None, "", [ge |-> 0, lt |-> 1000], FALSE),
       OptionalNone("q", "query", "str"),
       OptionalNone("item", "body", "Item") >>

update_item_items2_params ==
    << Field("item_id", "path", "int", FALSE, TRUE, None, "", [ge |-> 0, le |-> 1000], FALSE),
       OptionalNone("q", "query", "str"),
       OptionalNone("item", "body", "Item") >>

update_item_items3_params ==
    << Required("item_id", "path", "int"),
       Required("item", "body", "Item"),
       Required("user", "body", "User") >>

\* update_item_items4_params with importance given a default
update_item_items4_params_defaulted ==
    << Required("item_id", "path", "int"),
       Required("item", "body", "Item"),
       Required("user", "body", "User"),
       Defaulted("importance", "body", "int", 0) >>

update_item_items4_params ==
    << Required("item_id", "path", "int"),
       Required("item", "body", "Item"),
       Required("user", "body", "User"),
       Required("importance", "body", "int") >>

update_item_items5_params ==
    << Required("item_id", "path", "int"), Required("item", "body", "Item") >>

get_model_params == << Required("model_name", "path", "ModelName") >>

read_user_item_params ==
    << Required("user_id", "path", "int"),
       Required("item_id", "path", "str"),
       OptionalNone("q", "query", "str"),
       Defaulted("short", "query", "bool", FALSE) >>

\* the route table: the parameters declared for each registered route
EndpointSpec(ep) ==
    CASE ep = GetItems -> read_item_params
      [] ep = PostItems -> create_item_params
      [] ep = GetItems3 -> read_items3_params
      [] ep = GetItem -> read_item_by_id_params
      [] ep = PutItem -> create_item_put_params
      [] ep = PutItems2 -> update_item_items2_params
      [] ep = PutItems3 -> update_item_items3_params
      [] ep = PutItems4 -> update_item_items4_params
      [] ep = PutItems5 -> update_item_items5_params
      [] ep = GetModel -> get_model_params
      [] ep = GetUserItem -> read_user_item_params

---------------------------------------------------------------------------
(* Validation of one value against its declaration.                        *)

Err(loc, type) == [loc |-> loc, type |-> type]

Coerced(v) == [ok |-> TRUE, v |-> v]

NotCoerced == [ok |-> FALSE, v |-> None]

\* the declared type applied to a wire value
Coerce(type, j) ==
    CASE type = "int" ->
           IF j.t \in {"str", "num"} /\ IsIntLexeme(j.v) THEN Coerced(ParseInt(j.v))
           ELSE NotCoerced
      [] type = "float" ->
           IF j.t \in {"str", "num"} /\ IsFloatLexeme(j.v) THEN Coerced(ParseFloat(j.v))
           ELSE NotCoerced
      [] type = "str" ->
           IF j.t \in {"str", "num"} THEN Coerced(j.v) ELSE NotCoerced
      [] type = "bool" ->
           IF j.t = "str" /\ j.v \in BoolTrue THEN Coerced(TRUE)
           ELSE IF j.t = "str" /\ j.v \in BoolFalse THEN Coerced(FALSE)
           ELSE NotCoerced
      [] type = "ModelName" ->
           IF j.t = "str" /\ \E m \in DOMAIN ModelName : ModelName[m] = j.v
           THEN Coerced(CHOOSE m \in DOMAIN ModelName : ModelName[m] = j.v)
           ELSE NotCoerced
      [] type = "set_str" ->
           IF j.t = "arr" /\ \A i \in 1..Len(j.v) : j.v[i].t = "str"
           THEN Coerced({j.v[i].v : i \in 1..Len(j.v)})
           ELSE NotCoerced

CoerceError(type) == IF type = "ModelName" THEN "InvalidEnumValue" ELSE "TypeCoercionError"

Has(cons, k) == k \in DOMAIN cons

\* the first declared constraint the value violates, "" when none
ConstraintError(type, cons, v) ==
    IF type \in {"int", "float"} THEN
        IF Has(cons, "gt") /\ ~(v > cons.gt) THEN "OutOfRange"
        ELSE IF Has(cons, "ge") /\ ~(v >= cons.ge) THEN "OutOfRange"
        ELSE IF Has(cons, "lt") /\ ~(v < cons.lt) THEN "OutOfRange"
        ELSE IF Has(cons, "le") /\ ~(v <= cons.le) THEN "OutOfRange"
        ELSE ""
    ELSE IF type = "str" THEN
        IF Has(cons, "min_length") /\ Len(v) < cons.min_length THEN "LengthError"
        ELSE IF Has(cons, "max_length") /\ Len(v) > cons.max_length THEN "LengthError"
        ELSE IF Has(cons, "regex") /\ ~RegexMatch(cons.regex, v) THEN "PatternMismatch"
        ELSE ""
    ELSE ""

Valid(v) == [value |-> v, errs |-> {}]

Invalid(es) == [value |-> None, errs |-> es]

FieldIndex(fs, n) == CHOOSE i \in 1..Len(fs) : fs[i].name = n

FieldNames(fs) == {fs[i].name : i \in 1..Len(fs)}

WireName(f) == IF f.alias # "" THEN f.alias ELSE f.name

\* F applied to x, with x evaluated once (a LET would do, at the price of
\* evaluating x again at each use)
With(x, F(_)) == CHOOSE r \in {F(v) : v \in {x}} : TRUE

\* F applied to the values by field name, and to all the errors, of the
\* per-field results sub
Collect(fs, sub, F(_, _)) ==
    With(sub,
         LAMBDA s :
            F([n \in FieldNames(fs) |-> s[FieldIndex(fs, n)].value],
              UNION {s[i].errs : i \in 1..Len(fs)}))

Lookup(m, k) == IF k \in DOMAIN m THEN Some(m[k]) ELSE None

RECURSIVE ValidateValue(_, _, _)
RECURSIVE ValidateField(_, _, _)

\* a present value: a model is validated field by field, a scalar is coerced
\* and then checked against its constraints
ValidateValue(spec, j, loc) ==
    IF IsModel(spec.type) THEN
        IF j.t # "obj" THEN Invalid({Err(loc, "TypeCoercionError")})
        ELSE LET fs == ModelFields(spec.type)
             IN  Collect(fs,
                         [i \in 1..Len(fs) |->
                            ValidateField(fs[i], Lookup(j.v, WireName(fs[i])),
                                          Append(loc, WireName(fs[i])))],
                         LAMBDA values, es :
                            IF es # {} THEN Invalid(es)
                            ELSE Valid([cls |-> spec.type, fields |-> values]))
    ELSE With(Coerce(spec.type, j),
              LAMBDA c :
                 IF ~c.ok THEN Invalid({Err(loc, CoerceError(spec.type))})
                 ELSE With(ConstraintError(spec.type, spec.cons, c.v),
                           LAMBDA e : IF e # "" THEN Invalid({Err(loc, e)}) ELSE Valid(c.v)))

\* an absent value is an error when required and the default otherwise; the
\* default is returned as declared, unchecked
ValidateField(spec, r, loc) ==
    IF r = None THEN
        IF spec.required THEN Invalid({Err(loc, "MissingRequiredParameter")})
        ELSE Valid(spec.default)
    ELSE With(ValidateValue(spec, r[1], loc),
              LAMBDA res :
                 IF res.errs # {} THEN res
                 ELSE Valid(IF spec.optional THEN Some(res.value) ELSE res.value))

---------------------------------------------------------------------------
(* Binding: where each declared parameter takes its wire value from.       *)

BodyParams(ep) == {i \in 1..Len(EndpointSpec(ep)) : EndpointSpec(ep)[i].in = "body"}

\* several body parameters, or one that asks for it, are read from under
\* their own keys; a single plain body parameter is the whole body
BodyEmbedded(ep) ==
    \/ Cardinality(BodyParams(ep)) > 1
    \/ \E i \in BodyParams(ep) : EndpointSpec(ep)[i].embed

\* the wire value of parameter f in request req, None when absent
RawValue(req, f) ==
    CASE f.in = "path" ->
           IF f.name \in DOMAIN req.path THEN Some(JStr(req.path[f.name])) ELSE None
      [] f.in = "query" ->
           IF WireName(f) \in DOMAIN req.query THEN Some(JStr(req.query[WireName(f)])) ELSE None
      [] f.in = "body" ->
           IF BodyEmbedded(req.ep)
           THEN IF req.body.t = "obj" THEN Lookup(req.body.v, WireName(f)) ELSE None
           ELSE IF req.body.t = "none" THEN None ELSE Some(req.body)

bind(req) ==
    LET fs == EndpointSpec(req.ep)
    IN  [n \in FieldNames(fs) |-> RawValue(req, fs[FieldIndex(fs, n)])]

\* where an error of parameter f is reported: a body parameter that is the
\* whole body is reported at the body itself
Loc(ep, f) ==
    IF f.in = "body" /\ ~BodyEmbedded(ep) THEN <<"body">> ELSE <<f.in, WireName(f)>>

\* every parameter is validated and every error collected
validate(ep, rawvals) ==
    LET fs == EndpointSpec(ep)
    IN  Collect(fs,
                [i \in 1..Len(fs) |-> ValidateField(fs[i], rawvals[fs[i].name], Loc(ep, fs[i]))],
                LAMBDA values, es : [values |-> values, errs |-> es])

---------------------------------------------------------------------------
(* The handlers.  a is the handler's keyword arguments, db the module's    *)
(* fake_items_db.                                                          *)

Min(x, y) == IF x < y THEN x ELSE y

Max(x, y) == IF x > y THEN x ELSE y

\* a slice index clamped as list.__getitem__ clamps it
SliceIndex(i, n) == IF i < 0 THEN Max(i + n, 0) ELSE Min(i, n)

\* seq[start:stop]
PySlice(seq, start, stop) ==
    LET lo == SliceIndex(start, Len(seq))
        hi == SliceIndex(stop, Len(seq))
    IN  IF lo < hi THEN SubSeq(seq, lo + 1, hi) ELSE << >>

LongDescription == "This is an amazing item that has a long description"

read_item(a, db) == PySlice(db, a.skip, a.skip + a.limit)

\* create_item testing "item.tax is not None"
create_item_any_tax(a) ==
    LET item_dict == a.item.fields
    IN  IF a.item.fields.tax # None
        THEN Update(item_dict, [price_with_tax |-> a.item.fields.price + a.item.fields.tax[1]])
        ELSE item_dict

create_item(a) ==
    LET item_dict == a.item.fields
    IN  IF TruthyNum(a.item.fields.tax)
        THEN Update(item_dict, [price_with_tax |-> a.item.fields.price + a.item.fields.tax[1]])
        ELSE item_dict

read_items3(a) == [q |-> a.q]

read_item_by_id(a) ==
    LET item == [item_id |-> a.item_id]
        item1 == IF TruthyStr(a.q) THEN Update(item, [q |-> a.q[1]]) ELSE item
    IN  IF ~a.short THEN Update(item1, [description |-> LongDescription]) ELSE item1

create_item_put(a) ==
    LET res == [item_id |-> a.item_id, item |-> a.item]
    IN  IF TruthyStr(a.q) THEN Update(res, [q |-> a.q[1]]) ELSE res

update_item_items2(a) ==
    LET results == [item_id |-> a.item_id]
        results1 == IF TruthyStr(a.q) THEN Update(results, [q |-> a.q[1]]) ELSE results
    IN  IF a.item # None THEN Update(results1, [item |-> a.item[1]]) ELSE results1

update_item_items3(a) == [item_id |-> a.item_id, item |-> a.item, user |-> a.user]

update_item_items4(a) ==
    [item_id |-> a.item_id, item |-> a.item, user |-> a.user, importance |-> a.importance]

update_item_items5(a) == [item_id |-> a.item_id, item |-> a.item]

\* get_model with the lenet and resnet messages exchanged
get_model_exchanged(a) ==
    IF a.model_name = "alexnet"
    THEN [model_name |-> a.model_name, message |-> "Deep Learning FTW!"]
    ELSE IF ModelName[a.model_name] = "lenet"
    THEN [model_name |-> a.model_name, message |-> "Have some residuals"]
    ELSE [model_name |-> a.model_name, message |-> "LeCNN all the images"]

get_model(a) ==
    IF a.model_name = "alexnet"
    THEN [model_name |-> a.model_name, message |-> "Deep Learning FTW!"]
    ELSE IF ModelName[a.model_name] = "lenet"
    THEN [model_name |-> a.model_name, message |-> "LeCNN all the images"]
    ELSE [model_name |-> a.model_name, message |-> "Have some residuals"]

\* read_user_item adding the description whenever q is given
read_user_item_described(a) ==
    LET item == [item_id |-> a.item_id, owner_id |-> a.user_id]
        item1 == IF TruthyStr(a.q) THEN Update(item, [q |-> a.q[1]]) ELSE item
    IN  IF ~a.short \/ TruthyStr(a.q)
        THEN Update(item1, [description |-> LongDescription]) ELSE item1

read_user_item(a) ==
    LET item == [item_id |-> a.item_id, owner_id |-> a.user_id]
        item1 == IF TruthyStr(a.q) THEN Update(item, [q |-> a.q[1]]) ELSE item
    IN  IF ~a.short THEN Update(item1, [description |-> LongDescription]) ELSE item1

\* the handler registered for the route
Handler(ep, a, db) ==
    CASE ep = GetItems -> read_item(a, db)
      [] ep = PostItems -> create_item(a)
      [] ep = GetItems3 -> read_items3(a)
      [] ep = GetItem -> read_item_by_id(a)
      [] ep = PutItem -> create_item_put(a)
      [] ep = PutItems2 -> update_item_items2(a)
      [] ep = PutItems3 -> update_item_items3(a)
      [] ep = PutItems4 -> update_item_items4(a)
      [] ep = PutItems5 -> update_item_items5(a)
      [] ep = GetModel -> get_model(a)
      [] ep = GetUserItem -> read_user_item(a)

\* the returned value as the response carries it: a model instance becomes
\* the dict of its fields, an enum member its value
Serialize(ep, res) ==
    IF ep = GetItems THEN res
    ELSE [k \in DOMAIN res |->
            IF k \in {"item", "user"} THEN res[k].fields
            ELSE IF k = "model_name" THEN ModelName[res[k]]
            ELSE res[k]]

---------------------------------------------------------------------------
(* The requests explored.                                                  *)

Req(ep, path, query, body) == [ep |-> ep, path |-> path, query |-> query, body |-> body]

NoRequest == Req("", << >>, << >>, NoBody)

ItemFoo ==
    JObj([name |-> JStr("Foo"), description |-> JStr("A very nice Item"),
          price |-> JNum("35.4"), tax |-> JNum("3.2")])

ItemBar == JObj([name |-> JStr("Bar"), price |-> JNum("35.4")])

ItemZeroTax == JObj([name |-> JStr("Bar"), price |-> JNum("12"), tax |-> JNum("0")])

ItemRebate ==
    JObj([name |-> JStr("Qux"), price |-> JNum("12.5"), tax |-> JNum("-1.5"),
          tags |-> JArr(<<JStr("a"), JStr("b"), JStr("a")>>)])

ItemConverted == JObj([name |-> JStr("Bar"), price |-> JStr("35.4")])

ItemInvalid == JObj([name |-> JStr("Baz"), price |-> JStr("thirty five point four")])

ItemFree == JObj([name |-> JStr("Baz"), price |-> JNum("0")])

ItemNoName == JObj([price |-> JNum("5"), tax |-> JNum("1")])

ItemNoPrice == JObj([name |-> JStr("Foo"), tax |-> JNum("1")])

ItemDescribed(n) == JObj([name |-> JStr("Foo"), description |-> JStr(Rep("d", n)), price |-> JNum("1")])

ItemBodies ==
    {ItemFoo, ItemBar, ItemZeroTax, ItemRebate, ItemConverted, ItemInvalid, ItemFree,
     ItemNoName, ItemNoPrice}
    \cup {ItemDescribed(n) : n \in 300..(300 + LenSlack)}

UserDave == JObj([username |-> JStr("dave"), full_name |-> JStr("Dave Grohl")])

UserAnonymous == JObj([full_name |-> JStr("Dave Grohl")])

\* the maps over the keys ks that give each key one of its values, or leave it out
RECURSIVE Maps(_, _)
Maps(ks, vals) ==
    IF ks = {} THEN {<< >>}
    ELSE LET k == CHOOSE x \in ks : TRUE
             rest == Maps(ks \ {k}, vals)
         IN  rest \cup {Update(m, [x \in {k} |-> v]) : m \in rest, v \in vals[k]}

IntsAround(b) == {IntLexeme(n) : n \in (b - Overshoot)..(b + Overshoot)}

LengthsAround(b) == {Rep("x", n) : n \in (b - LenSlack)..(b + LenSlack)}

QueryStrings ==
    {"", "fixed-query", "fixed-query\n", "Fixed-Query"}
    \cup LengthsAround(3) \cup LengthsAround(50)

ShortLexemes == {"true", "0", "maybe"}

GetItemsRequests ==
    {Req(GetItems, << >>, q, NoBody) :
        q \in Maps({"skip", "limit"},
                   [skip |-> {IntLexeme(n) : n \in (-MaxSkip)..MaxSkip} \cup {"abc"},
                    limit |-> {IntLexeme(n) : n \in (-MaxLimit)..MaxLimit}])}

PostItemsRequests == {Req(PostItems, << >>, << >>, b) : b \in ItemBodies \cup {NoBody, JObj([item |-> ItemFoo])}}

GetItems3Requests ==
    {Req(GetItems3, << >>, q, NoBody) : q \in Maps({"item-query"}, [x \in {"item-query"} |-> QueryStrings])}
    \cup {Req(GetItems3, << >>, [q |-> "ab"], NoBody)}

GetItemRequests ==
    {Req(GetItem, [item_id |-> "foo"], q, NoBody) :
        q \in Maps({"q", "short"}, [q |-> QueryStrings, short |-> ShortLexemes])}

PutItemRequests ==
    {Req(PutItem, [item_id |-> i], q, b) :
        i \in {"5"}, q \in Maps({"q"}, [q |-> {"hi"}]),
        b \in {NoBody, ItemFoo, JObj([item |-> ItemFoo]), JObj([item |-> ItemFree]),
               JObj([item |-> ItemBar, user |-> UserDave])}}
    \cup {Req(PutItem, [item_id |-> "five"], << >>, JObj([item |-> ItemFoo]))}

PutItems2Requests ==
    {Req(PutItems2, [item_id |-> i], << >>, b) :
        i \in IntsAround(0) \cup IntsAround(1000) \cup {"abc"},
        b \in {NoBody, ItemFoo, ItemFree}}
    \cup {Req(PutItems2, [item_id |-> i], [q |-> "hi"], NoBody) : i \in {"7", "-7"}}

PutItems3Requests ==
    {Req(PutItems3, [item_id |-> "5"], << >>, b) :
        b \in {NoBody, ItemFoo} \cup
              {JObj(m) : m \in Maps({"item", "user"},
                                    [item |-> {ItemFoo, ItemFree}, user |-> {UserDave, UserAnonymous}])}}

PutItems4Requests ==
    {Req(PutItems4, [item_id |-> "5"], << >>, b) :
        b \in {NoBody} \cup
              {JObj(m) : m \in Maps({"item", "user", "importance"},
                                    [item |-> {ItemFoo}, user |-> {UserDave},
                                     importance |-> {JNum("5"), JStr("high")}])}}

PutItems5Requests ==
    {Req(PutItems5, [item_id |-> i], << >>, b) :
        i \in {"5", "x"}, b \in {NoBody, ItemFoo, ItemInvalid, JObj([item |-> ItemFoo])}}

GetModelRequests ==
    {Req(GetModel, [model_name |-> m], << >>, NoBody) :
        m \in {"alexnet", "resnet", "lenet", "AlexNet", "LENET", "vgg", "lenet "}}

GetUserItemRequests ==
    {Req(GetUserItem, [user_id |-> u, item_id |-> "foo"], q, NoBody) :
        u \in {"7", "seven"},
        q \in Maps({"q", "short"}, [q |-> {"", "hi"}, short |-> ShortLexemes])}

AllRequests ==
    GetItemsRequests \cup PostItemsRequests \cup GetItems3Requests \cup GetItemRequests
    \cup PutItemRequests \cup PutItems2Requests \cup PutItems3Requests
    \cup PutItems4Requests \cup PutItems5Requests \cup GetModelRequests
    \cup GetUserItemRequests

\* the requests a second client sends while the first is in flight
ConcurrentRequests ==
    {Req(GetItems, << >>, << >>, NoBody),
     Req(GetItems, << >>, [skip |-> "1", limit |-> "1"], NoBody),
     Req(GetItems, << >>, [skip |-> "-1"], NoBody),
     Req(PostItems, << >>, << >>, ItemFoo),
     Req(PutItems2, [item_id |-> "1001"], << >>, ItemFoo),
     Req(PutItems4, [item_id |-> "5"], << >>, JObj([item |-> ItemFoo, user |-> UserDave])),
     Req(GetModel, [model_name |-> "resnet"], << >>, NoBody)}

Clients == {"c1", "c2"}

RequestsOf(c) == IF c = "c1" THEN AllRequests ELSE ConcurrentRequests

---------------------------------------------------------------------------
(* The dispatcher: one request per client, taken through its stages.       *)

Init ==
    /\ fake_items_db = InitialItemsDb
    /\ stage = [c \in Clients |-> "Unbound"]
    /\ request = [c \in Clients |-> NoRequest]
    /\ raw = [c \in Clients |-> << >>]
    /\ args = [c \in Clients |-> << >>]
    /\ errors = [c \in Clients |-> {}]
    /\ result = [c \in Clients |-> << >>]
    /\ response = [c \in Clients |-> << >>]
    /\ history = [c \in Clients |-> <<"Unbound">>]

Enter(c, s) ==
    /\ stage' = [stage EXCEPT ![c] = s]
    /\ history' = [history EXCEPT ![c] = Append(@, s)]

\* a request arrives and is routed
Dispatch(c) ==
    /\ stage[c] = "Unbound"
    /\ \E r \in RequestsOf(c) : request' = [request EXCEPT ![c] = r]
    /\ Enter(c, "Binding")
    /\ UNCHANGED <<fake_items_db, raw, args, errors, result, response>>

Bind(c) ==
    /\ stage[c] = "Binding"
    /\ raw' = [raw EXCEPT ![c] = bind(request[c])]
    /\ Enter(c, "Validating")
    /\ UNCHANGED <<fake_items_db, request, args, errors, result, response>>

Validate(c) ==
    /\ stage[c] = "Validating"
    /\ \E v \in {validate(request[c].ep, raw[c])} :
           /\ errors' = [errors EXCEPT ![c] = v.errs]
           /\ args' = [args EXCEPT ![c] = IF v.errs = {} THEN v.values ELSE << >>]
           /\ Enter(c, IF v.errs = {} THEN "Handling" ELSE "Failed")
    /\ UNCHANGED <<fake_items_db, request, raw, result, response>>

\* Handle with a handler that is run a second time
HandleAgain(c) ==
    /\ stage[c] = "Handling"
    /\ result' = [result EXCEPT ![c] = Handler(request[c].ep, args[c], fake_items_db)]
    /\ Enter(c, IF Len(history[c]) < 5 THEN "Handling" ELSE "Shaping")
    /\ UNCHANGED <<fake_items_db, request, raw, args, errors, response>>

\* Handle with a handler that removes the first item of the list it serves
HandleConsuming(c) ==
    /\ stage[c] = "Handling"
    /\ result' = [result EXCEPT ![c] = Handler(request[c].ep, args[c], fake_items_db)]
    /\ fake_items_db' = IF request[c].ep = GetItems /\ fake_items_db # << >>
                        THEN Tail(fake_items_db) ELSE fake_items_db
    /\ Enter(c, "Shaping")
    /\ UNCHANGED <<request, raw, args, errors, response>>

Handle(c) ==
    /\ stage[c] = "Handling"
    /\ result' = [result EXCEPT ![c] = Handler(request[c].ep, args[c], fake_items_db)]
    /\ Enter(c, "Shaping")
    /\ UNCHANGED <<fake_items_db, request, raw, args, errors, response>>

Shape(c) ==
    /\ stage[c] = "Shaping"
    /\ response' = [response EXCEPT ![c] = Serialize(request[c].ep, result[c])]
    /\ Enter(c, "Responded")
    /\ UNCHANGED <<fake_items_db, request, raw, args, errors, result>>

Step(c) == Dispatch(c) \/ Bind(c) \/ Validate(c) \/ Handle(c) \/ Shape(c)

Next == \E c \in Clients : Step(c)

Spec == Init /\ [][Next]_vars

\* one request on its own: the steps of a request read nothing of another
\* request, so its progress is checked without a second one in flight
OneRequest == Step("c1")

Run(c) == Bind(c) \/ Validate(c) \/ Handle(c) \/ Shape(c)

\* a dispatched request is run to its end: binding, validation, the handler
\* (which never awaits) and serialization make one uninterrupted call chain
FairSpec == Init /\ [][OneRequest]_vars /\ WF_vars(Run("c1"))

---------------------------------------------------------------------------
(* Properties.                                                             *)

Range(q) == {q[i] : i \in 1..Len(q)}

IsPrefix(p, q) == Len(p) <= Len(q) /\ SubSeq(q, 1, Len(p)) = p

Terminal == {"Responded", "Failed"}

\* the request has been validated, with either outcome
Decided(c) == stage[c] \in {"Handling", "Shaping", "Responded", "Failed"}

\* the handler of the request has been invoked
Invoked(c) == "Handling" \in Range(history[c])

HappyPath == <<"Unbound", "Binding", "Validating", "Handling", "Shaping", "Responded">>

FailurePaths == {<<"Unbound", "Binding", "Failed">>, <<"Unbound", "Binding", "Validating", "Failed">>}

\* the stages entered so far are the start of a run to Responded or of a run
\* that ends in Failed, no stage is entered twice, Failed follows an error
\* and Responded follows none
StagesInOrder ==
    \A c \in Clients :
        /\ history[c][Len(history[c])] = stage[c]
        /\ \/ IsPrefix(history[c], HappyPath)
           \/ \E f \in FailurePaths : IsPrefix(history[c], f)
        /\ \A i, j \in 1..Len(history[c]) : history[c][i] = history[c][j] => i = j
        /\ ~({"Responded", "Failed"} \subseteq Range(history[c]))
        /\ stage[c] = "Failed" => errors[c] # {} /\ ~Invoked(c)
        /\ stage[c] = "Responded" => errors[c] = {}

\* C1: every request passes Unbound, Binding, Validating, Handling, Shaping,
\* Responded in that order or fails at a binding or validation error; no
\* stage is entered twice; a dispatched request ends in exactly one of
\* Responded and Failed, and a request that has ended stays as it ended.
C1_Lifecycle ==
    /\ []StagesInOrder
    /\ [][\A c \in Clients : stage[c] \in Terminal => stage'[c] = stage[c]]_vars
    /\ \A c \in Clients : (stage[c] = "Binding") ~> (stage[c] \in Terminal)

C1_Witness ==
    /\ request["c1"].ep = PutItems2
    /\ history["c1"] = <<"Unbound", "Binding", "Validating", "Failed">>

RequiredParams(ep) == {i \in 1..Len(EndpointSpec(ep)) : EndpointSpec(ep)[i].required}

\* parameter i of the request's route was sent and passes its declaration
SentAndValid(req, i) ==
    LET f == EndpointSpec(req.ep)[i]
    IN  /\ RawValue(req, f) # None
        /\ ValidateField(f, RawValue(req, f), Loc(req.ep, f)).errs = {}

BodyKeys(req) == IF req.body.t = "obj" THEN DOMAIN req.body.v ELSE {}

\* C2: the handler is invoked only for a request whose required parameters
\* are all present and valid; a PUT /items4/{item_id} whose body lacks item,
\* user or importance fails with MissingRequiredParameter for that key and
\* update_item is not invoked.
C2_HandlerSeesOnlyValid ==
    \A c \in Clients :
        /\ Invoked(c) => \A i \in RequiredParams(request[c].ep) : SentAndValid(request[c], i)
        /\ (Decided(c) /\ \E i \in RequiredParams(request[c].ep) : ~SentAndValid(request[c], i))
              => stage[c] = "Failed"
        /\ (Decided(c) /\ request[c].ep = PutItems4) =>
              \A k \in {"item", "user", "importance"} \ BodyKeys(request[c]) :
                  /\ stage[c] = "Failed"
                  /\ ~Invoked(c)
                  /\ Err(<<"body", k>>, "MissingRequiredParameter") \in errors[c]

C2_Witness ==
    /\ request["c1"].ep = PutItems4
    /\ BodyKeys(request["c1"]) = {"item", "user"}
    /\ stage["c1"] = "Failed"
    /\ errors["c1"] = {Err(<<"body", "importance">>, "MissingRequiredParameter")}

QueryInt(req, k, default) == IF k \in DOMAIN req.query THEN ParseInt(req.query[k]) ELSE default

\* the elements of seq at the offsets from skip up to, not including, skip + limit
Window(seq, skip, limit) ==
    LET first == Max(skip, 0) + 1
        last == Min(skip + limit, Len(seq))
    IN  IF first <= last THEN SubSeq(seq, first, last) ELSE << >>

\* C3: the response of GET /items/ is the part of fake_items_db that starts at
\* offset skip and has at most limit elements, empty when skip is at or past
\* the end, for every integer skip and limit.
C3_Pagination ==
    \A c \in Clients :
        (request[c].ep = GetItems /\ stage[c] = "Responded") =>
            LET skip == QueryInt(request[c], "skip", 0)
                limit == QueryInt(request[c], "limit", 10)
            IN  /\ response[c] = Window(InitialItemsDb, skip, limit)
                /\ Len(response[c]) <= Max(limit, 0)
                /\ skip >= Len(InitialItemsDb) => response[c] = << >>

\* the Item of a flat JSON body, read off the wire
WireTax(b) == IF "tax" \in DOMAIN b.v THEN ParseFloat(b.v.tax.v) ELSE 0

\* C4: the response of POST /items/ has price_with_tax exactly when tax was
\* given and is not zero, its value is then price + tax, and every other
\* field is the validated Item's.
C4_PriceWithTax ==
    \A c \in Clients :
        (request[c].ep = PostItems /\ stage[c] = "Responded") =>
            LET item == args[c].item.fields
                body == request[c].body
            IN  /\ ("price_with_tax" \in DOMAIN response[c]) <=> (WireTax(body) # 0)
                /\ ("price_with_tax" \in DOMAIN response[c]) =>
                      response[c].price_with_tax = ParseFloat(body.v.price.v) + WireTax(body)
                /\ DOMAIN response[c] \ {"price_with_tax"} = DOMAIN item
                /\ \A k \in DOMAIN item : response[c][k] = item[k]

C4_Witness ==
    /\ request["c1"].ep = PostItems /\ stage["c1"] = "Responded"
    /\ response["c1"].price = 354
    /\ response["c1"].tax = Some(32)
    /\ "price_with_tax" \in DOMAIN response["c1"]
    /\ response["c1"].price_with_tax = 386

ModelMessage ==
    [alexnet |-> "Deep Learning FTW!", lenet |-> "LeCNN all the images",
     resnet |-> "Have some residuals"]

\* C5: GET /models/{model_name} accepts exactly alexnet, resnet and lenet and
\* fails with InvalidEnumValue otherwise; the response echoes model_name and
\* carries the member's own message, the three messages being distinct.
C5_EnumDispatch ==
    /\ \A m, n \in DOMAIN ModelMessage : ModelMessage[m] = ModelMessage[n] => m = n
    /\ \A c \in Clients :
          (request[c].ep = GetModel /\ Decided(c)) =>
              LET name == request[c].path.model_name
              IN  /\ stage[c] # "Failed" <=> name \in {"alexnet", "resnet", "lenet"}
                  /\ stage[c] = "Failed" =>
                        errors[c] = {Err(<<"path", "model_name">>, "InvalidEnumValue")}
                  /\ stage[c] = "Responded" =>
                        response[c] = [model_name |-> name, message |-> ModelMessage[name]]

C5_Witness ==
    /\ request["c1"].ep = GetModel /\ stage["c1"] = "Responded"
    /\ response["c1"] = [model_name |-> "lenet", message |-> "LeCNN all the images"]

ErrorsAt(c, loc) == {e \in errors[c] : e.loc = loc}

ErrorsIn(c, source) == {e \in errors[c] : e.loc[1] = source}

ItemId(c) == request[c].path.item_id

InRange(x) == 0 <= x /\ x <= 1000

\* C6 as claimed: a request with an integer item_id to PUT /items2/{item_id}
\* is accepted and reaches update_item exactly when 0 <= item_id <= 1000; any
\* other integer fails with OutOfRange and a non-integer with
\* TypeCoercionError, the handler not being run.
C6_AcceptedIffInRange ==
    \A c \in Clients :
        (request[c].ep = PutItems2 /\ Decided(c)) =>
            IF IsIntLexeme(ItemId(c))
            THEN /\ stage[c] # "Failed" <=> InRange(ParseInt(ItemId(c)))
                 /\ ~InRange(ParseInt(ItemId(c))) =>
                       Err(<<"path", "item_id">>, "OutOfRange") \in errors[c] /\ ~Invoked(c)
            ELSE Err(<<"path", "item_id">>, "TypeCoercionError") \in errors[c] /\ ~Invoked(c)

\* C6: for PUT /items2/{item_id}, an integer item_id is accepted exactly when
\* 0 <= item_id <= 1000, and the request reaches update_item exactly when
\* item_id is accepted and the body, if sent, is a valid Item; any other
\* integer fails with OutOfRange and a non-integer with TypeCoercionError,
\* the handler not being run.
C6_ItemIdRange ==
    \A c \in Clients :
        (request[c].ep = PutItems2 /\ Decided(c)) =>
            LET loc == <<"path", "item_id">>
                good == IsIntLexeme(ItemId(c)) /\ InRange(ParseInt(ItemId(c)))
            IN  /\ ErrorsAt(c, loc) =
                      IF ~IsIntLexeme(ItemId(c)) THEN {Err(loc, "TypeCoercionError")}
                      ELSE IF ~InRange(ParseInt(ItemId(c))) THEN {Err(loc, "OutOfRange")}
                      ELSE {}
                /\ stage[c] # "Failed" <=> (good /\ ErrorsIn(c, "body") = {})
                /\ ~good => stage[c] = "Failed" /\ ~Invoked(c)
                /\ Invoked(c) => args[c].item_id = ParseInt(ItemId(c))

C6_Witness ==
    /\ request["c1"].ep = PutItems2 /\ request["c2"].ep = PutItems2
    /\ ItemId("c1") = "1000" /\ stage["c1"] = "Responded" /\ response["c1"].item_id = 1000
    /\ ItemId("c2") = "1001" /\ stage["c2"] = "Failed"

\* the wire name and the location of the constrained query string q
QueryKey(ep) == IF ep = GetItems3 THEN "item-query" ELSE "q"

QueryLoc(ep) == <<"query", QueryKey(ep)>>

LengthOk(str) == 3 <= Len(str) /\ Len(str) <= 50

Matches(str) == str = "fixed-query" \/ str = "fixed-query\n"

\* C7 as claimed: a supplied q is accepted exactly when its length is in 3..50
\* and it matches ^fixed-query$, a length violation fails with LengthError and
\* a non-matching string with PatternMismatch; without q the request is
\* accepted.
C7_AsClaimed ==
    \A c \in Clients :
        (request[c].ep \in {GetItem, GetItems3} /\ Decided(c)) =>
            LET k == QueryKey(request[c].ep)
                loc == QueryLoc(request[c].ep)
            IN  IF k \in DOMAIN request[c].query
                THEN LET str == request[c].query[k]
                     IN  /\ ErrorsAt(c, loc) = {} <=> (LengthOk(str) /\ Matches(str))
                         /\ ~LengthOk(str) => Err(loc, "LengthError") \in errors[c]
                         /\ ~Matches(str) => Err(loc, "PatternMismatch") \in errors[c]
                ELSE stage[c] # "Failed"

\* C7: a supplied q of GET /items/{item_id} (item-query of GET /items3/) is
\* accepted exactly when its length is in 3..50 and it matches ^fixed-query$;
\* a length violation fails with LengthError alone, and a non-matching string
\* of a length within the bounds with PatternMismatch.  Without q the default
\* None is bound unchecked and q raises no error; the request is accepted
\* exactly when q and, where declared, short are.
C7_QueryConstraints ==
    \A c \in Clients :
        (request[c].ep \in {GetItem, GetItems3} /\ Decided(c)) =>
            LET k == QueryKey(request[c].ep)
                loc == QueryLoc(request[c].ep)
                sent == k \in DOMAIN request[c].query
                str == request[c].query[k]
            IN  /\ ErrorsAt(c, loc) =
                      IF ~sent THEN {}
                      ELSE IF ~LengthOk(str) THEN {Err(loc, "LengthError")}
                      ELSE IF ~Matches(str) THEN {Err(loc, "PatternMismatch")}
                      ELSE {}
                /\ stage[c] # "Failed" <=>
                      (ErrorsAt(c, loc) = {} /\ ErrorsAt(c, <<"query", "short">>) = {})
                /\ Invoked(c) => args[c].q = IF sent THEN Some(str) ELSE None

C7_Witness ==
    /\ request["c1"].ep = GetItem /\ stage["c1"] = "Failed"
    /\ request["c1"].query = [q |-> "xx"]
    /\ errors["c1"] = {Err(<<"query", "q">>, "LengthError")}

\* short as the wire carries it: absent is the default false
WireShort(req) == "short" \in DOMAIN req.query /\ req.query.short \in BoolTrue

\* C8: the responses of GET /items/{item_id} and of
\* GET /users/{user_id}/items/{item_id} carry the fixed description exactly
\* when short is false, whether or not q was given.
C8_ShortOmitsDescription ==
    \A c \in Clients :
        (request[c].ep \in {GetItem, GetUserItem} /\ stage[c] = "Responded") =>
            /\ ("description" \in DOMAIN response[c]) <=> ~WireShort(request[c])
            /\ ("description" \in DOMAIN response[c]) =>
                  response[c].description = "This is an amazing item that has a long description"

C8_Witness ==
    /\ request["c1"].ep = GetUserItem /\ stage["c1"] = "Responded"
    /\ WireShort(request["c1"])
    /\ DOMAIN response["c1"] = {"item_id", "owner_id", "q"}

\* what the handler of a request returns when it runs alone on the initial list
AloneResponse(req) ==
    Serialize(req.ep, Handler(req.ep, validate(req.ep, bind(req)).values, InitialItemsDb))

\* C9: fake_items_db stays its initial three-element list whatever requests
\* run and however they interleave, every response is what the request's own
\* parameters give, and GET /items/ with the same skip and limit returns the
\* same list each time.
C9_NoSharedMutation ==
    /\ fake_items_db = <<[item_name |-> "Foo"], [item_name |-> "Bar"], [item_name |-> "Baz"]>>
    /\ \A c \in Clients : stage[c] = "Responded" => response[c] = AloneResponse(request[c])
    /\ \A c, d \in Clients :
          (/\ stage[c] = "Responded" /\ stage[d] = "Responded"
           /\ request[c].ep = GetItems /\ request[d] = request[c])
              => response[c] = response[d]

C9_Witness ==
    /\ stage["c1"] = "Responded" /\ stage["c2"] = "Responded"
    /\ request["c1"].ep = GetItems /\ request["c2"] = request["c1"]
    /\ response["c2"] = <<[item_name |-> "Bar"]>>

\* the body value bound to parameter p
Bound(c, p) == raw[c][p]

Bodyless(c) == request[c].body.t = "none"

\* C10: with several body parameters (PUT /items3, PUT /items4) each one is
\* bound from the payload key of its own name; a single embedded parameter
\* (PUT /items/{item_id}) is read from under the key item; a single plain one
\* (POST /items/, PUT /items5/{item_id}) is the whole payload.
C10_BodyBinding ==
    \A c \in Clients :
        (stage[c] \notin {"Unbound", "Binding"}) =>
            LET ep == request[c].ep
                body == request[c].body
                keyed == IF ep = PutItems3 THEN {"item", "user"}
                         ELSE IF ep = PutItems4 THEN {"item", "user", "importance"}
                         ELSE IF ep = PutItem THEN {"item"}
                         ELSE {}
            IN  /\ \A p \in keyed :
                      Bound(c, p) = IF p \in BodyKeys(request[c]) THEN Some(body.v[p]) ELSE None
                /\ ep \in {PostItems, PutItems5} =>
                      Bound(c, "item") = IF Bodyless(c) THEN None ELSE Some(body)
                /\ (ep = PutItem /\ stage[c] = "Responded") =>
                      response[c].item.name = body.v.item.v.name.v
                /\ (ep = PutItems5 /\ stage[c] = "Responded") =>
                      response[c].item.name = body.v.name.v

C10_Witness ==
    /\ request["c1"].ep = PutItem /\ stage["c1"] = "Responded"
    /\ request["c1"].body = JObj([item |-> ItemBar, user |-> UserDave])
    /\ response["c1"].item.name = "Bar"
    /\ "user" \notin DOMAIN response["c1"]

====
